---- MODULE Spec2Model ----
(***************************************************************************)
(* dnscrypt-proxy 2.0.0beta11: the service supervisor (App), the proxy     *)
(* start-up and background loops, the UDP/TCP listeners with their         *)
(* admission counter, and the per-query pipeline processIncomingQuery.     *)
(*                                                                         *)
(* Packets are records: the DNS message length, the TC flag, the number of *)
(* answer records, and the bytes of a DNS-over-TCP length prefix (empty    *)
(* when the packet carries none).  What a query did is recorded as a log   *)
(* of events, in the order the code performs them.                         *)
(***************************************************************************)
EXTENDS Integers, Sequences, FiniteSets, TLC

\* ------------------------------------------------------------------------
\* Bounds of the model
\* ------------------------------------------------------------------------

\* proxy.maxClients, a configuration value (main.go:179)
MaxClients == 1

\* client tasks: one per UDP packet read or TCP connection accepted
NTasks == 2

\* registered servers (proxy.registeredServers, a configuration value)
NumServers == 1

\* ------------------------------------------------------------------------
\* Program constants (declared outside main.go)
\* ------------------------------------------------------------------------

MinDNSPacketSize == 17

MaxDNSPacketSize == 4096

MaxDNSUDPPacketSize == 512

\* the server magic (8), the nonce (24) and the tag (16)
ResponseOverhead == 48

\* header (12) + longest question (255 + 4): the longest truncated shell
MaxShellSize == 271

StampProtoTypePlain == "Plain"

StampProtoTypeDNSCrypt == "DNSCrypt"

StampProtoTypeDoH == "DoH"

PluginsActionForward == "Forward"

PluginsActionDrop == "Drop"

PluginsActionSynth == "Synth"

\* ------------------------------------------------------------------------
\* Packets and events
\* ------------------------------------------------------------------------

Pkt(len, tc, an) == [prefix |-> <<>>, len |-> len, tc |-> tc, an |-> an]

NoPkt == Pkt(0, FALSE, 0)

\* bytes on the wire: the prefix, then the message
WireLen(p) == Len(p.prefix) + p.len

Ev(op, pkt, n) == [op |-> op, pkt |-> pkt, n |-> n]

E(op) == Ev(op, NoPkt, 0)

Ops(log) == {log[i].op : i \in 1..Len(log)}

Has(log, op) == op \in Ops(log)

\* a result of a step of the pipeline: the events so far, whether the step
\* failed, and the packet it produced
Res(log, err, pkt) == [log |-> log, err |-> err, pkt |-> pkt]

\* ------------------------------------------------------------------------
\* Inputs of a query: what the network, the plugins and the crypto envelope
\* may hand to the pipeline
\* ------------------------------------------------------------------------

NoServer == "nil"

\* the Proto of a ServerInfo
Protos == {StampProtoTypeDNSCrypt, StampProtoTypeDoH, StampProtoTypePlain}

ClientProtos == {"udp", "tcp"}

\* lengths of a client query: too short, shortest, longest a UDP read returns
QueryLens == {MinDNSPacketSize - 1, MinDNSPacketSize, MaxDNSPacketSize - 1}

Queries == {Pkt(l, FALSE, 0) : l \in QueryLens}

\* lengths of a reply around each limit of the size policy
ResponseLens ==
    {MinDNSPacketSize - 1, MinDNSPacketSize, MaxDNSUDPPacketSize,
     MaxDNSUDPPacketSize + 1, MaxDNSPacketSize, MaxDNSPacketSize + 1}

\* replies of an upstream: one of each length, and a short one with TC set
Responses ==
    {Pkt(l, FALSE, IF l > MinDNSPacketSize THEN 1 ELSE 0) : l \in ResponseLens}
        \cup {Pkt(MinDNSPacketSize, TRUE, 0)}

\* what synthResponse.PackBuffer returns: a bare header, a refusal, a long answer
SynthResponses ==
    {Pkt(12, FALSE, 0), Pkt(MinDNSPacketSize, FALSE, 0),
     Pkt(MaxDNSUDPPacketSize + 1, FALSE, 1)}

\* pluginsState.synthResponse: nil (NoPkt) or a message
SynthStates == {NoPkt} \cup SynthResponses

Actions == {PluginsActionForward, PluginsActionDrop, PluginsActionSynth}

\* what proxy.Encrypt returns: a padded query, and one too long for the two
\* bytes of a length prefix
EncryptedQueries == {Pkt(256, FALSE, 0), Pkt(65536, FALSE, 0)}

\* ------------------------------------------------------------------------
\* Helpers of the pipeline that live outside main.go
\* ------------------------------------------------------------------------

\* PrefixWithSize: two bytes of big-endian length, then the packet
PrefixWithSize(p) ==
    IF p.len > 65535
    THEN Res(<<>>, TRUE, NoPkt)
    ELSE Res(<<>>, FALSE, [p EXCEPT !.prefix = <<p.len \div 256, p.len % 256>>])

\* TruncatedResponse: header and question of the reply, TC set, no records;
\* fails when the reply does not parse
TruncatedResponse(p) ==
    {Res(<<Ev("TruncatedResponse", NoPkt, 0)>>, TRUE, NoPkt)}
        \cup {Res(<<Ev("TruncatedResponse", Pkt(l, TRUE, 0), 1)>>, FALSE, Pkt(l, TRUE, 0)) :
                l \in {MinDNSPacketSize, MaxShellSize}}

HasTCFlag(p) == p.tc

\* ApplyResponsePlugins: pass the reply through, or rewrite it to a refusal
ApplyResponsePlugins(response) == {response, Pkt(MinDNSPacketSize, FALSE, 0)}

\* Decrypt: an error, or the reply, which fits the buffer it was read into
Decrypt(log, bufferSize) ==
    {Res(log \o <<Ev("Decrypt", NoPkt, 0)>>, TRUE, NoPkt)}
        \cup {Res(log \o <<Ev("Decrypt", r, 1)>>, FALSE, r) :
                r \in {x \in Responses : x.len <= bufferSize}}

\* ------------------------------------------------------------------------
\* Upstream exchanges (main.go:346-381)
\* ------------------------------------------------------------------------

exchangeWithUDPServer(encryptedQuery, log) ==
    LET dialled == log \o <<Ev("Dial", NoPkt, 1), Ev("upstreamWrite", encryptedQuery, 1)>>
    IN  {Res(log \o <<Ev("Dial", NoPkt, 0)>>, TRUE, NoPkt)}
        \cup {Res(dialled \o <<Ev("upstreamRead", NoPkt, 0), E("upstreamClose")>>, TRUE, NoPkt)}
        \cup Decrypt(dialled \o <<Ev("upstreamRead", NoPkt, 1), E("upstreamClose")>>,
                     MaxDNSPacketSize)

exchangeWithTCPServer(encryptedQuery, log) ==
    LET dialled == log \o <<Ev("Dial", NoPkt, 1)>>
        prefixed == PrefixWithSize(encryptedQuery)
        sent == dialled \o <<Ev("upstreamWrite", prefixed.pkt, 1)>>
    IN  {Res(log \o <<Ev("Dial", NoPkt, 0)>>, TRUE, NoPkt)}
        \cup IF prefixed.err
             THEN {Res(dialled, TRUE, NoPkt)}
             ELSE {Res(sent \o <<Ev("upstreamRead", NoPkt, 0), E("upstreamClose")>>, TRUE, NoPkt)}
                  \cup Decrypt(sent \o <<Ev("upstreamRead", NoPkt, 1), E("upstreamClose")>>,
                               MaxDNSPacketSize + 1)

\* ------------------------------------------------------------------------
\* processIncomingQuery (main.go:403-499)
\* Every operator below yields the set of logs the query may end with.
\* ------------------------------------------------------------------------

\* EmitUDP with the limit of main.go:478 taken to be MaxDNSPacketSize
EmitUDPLongLimit(response, log) ==
    LET truncated ==
            IF response.len > MaxDNSPacketSize
            THEN TruncatedResponse(response)
            ELSE {Res(<<>>, FALSE, response)}
    IN  UNION {
            IF tr.err
            THEN {log \o tr.log}
            ELSE {log \o tr.log
                      \o <<Ev("WriteTo", tr.pkt, w)>>
                      \o (IF HasTCFlag(tr.pkt)
                          THEN <<E("blindAdjust")>>
                          ELSE <<Ev("adjust", NoPkt, ResponseOverhead + tr.pkt.len)>>)
                      \o <<E("noticeSuccess")>> : w \in {0, 1}}
            : tr \in truncated}

\* main.go:477-489: the reply to a UDP client
EmitUDP(response, log) ==
    LET truncated ==
            IF response.len > MaxDNSUDPPacketSize
            THEN TruncatedResponse(response)
            ELSE {Res(<<>>, FALSE, response)}
    IN  UNION {
            IF tr.err
            THEN {log \o tr.log}
            ELSE {log \o tr.log
                      \o <<Ev("WriteTo", tr.pkt, w)>>
                      \o (IF HasTCFlag(tr.pkt)
                          THEN <<E("blindAdjust")>>
                          ELSE <<Ev("adjust", NoPkt, ResponseOverhead + tr.pkt.len)>>)
                      \o <<E("noticeSuccess")>> : w \in {0, 1}}
            : tr \in truncated}

\* EmitTCP without the call of main.go:491: the reply is written as it is
EmitTCPUnprefixed(response, log) ==
    {log \o <<Ev("Write", response, w), E("noticeSuccess")>> : w \in {0, 1}}

\* main.go:490-498: the reply to a TCP client
EmitTCP(response, log) ==
    LET prefixed == PrefixWithSize(response)
    IN  IF prefixed.err
        THEN {log \o <<Ev("PrefixWithSize", NoPkt, 0), E("noticeFailure")>>}
        ELSE {log \o <<Ev("Write", prefixed.pkt, w), E("noticeSuccess")>> : w \in {0, 1}}

\* the size policy with the two limits of main.go:473 themselves refused
SizePolicyStrict(clientProto, response, log) ==
    IF response.len <= MinDNSPacketSize \/ response.len >= MaxDNSPacketSize
    THEN {log \o <<E("noticeFailure")>>}
    ELSE IF clientProto = "udp"
         THEN EmitUDP(response, log)
         ELSE EmitTCP(response, log)

\* main.go:473-498: the size policy, then the reply
SizePolicyAndEmit(clientProto, response, log) ==
    IF response.len < MinDNSPacketSize \/ response.len > MaxDNSPacketSize
    THEN {log \o <<E("noticeFailure")>>}
    ELSE IF clientProto = "udp"
         THEN EmitUDP(response, log)
         ELSE EmitTCP(response, log)

\* main.go:471: the response plugins, then the rest of the pipeline
AfterExchange(clientProto, response, log) ==
    UNION {SizePolicyAndEmit(clientProto, r, log \o <<Ev("ApplyResponsePlugins", r, 1)>>) :
             r \in ApplyResponsePlugins(response)}

\* main.go:423-437: the DNSCrypt exchange
ExchangeDNSCrypt(clientProto, serverProto, log) ==
    {log \o <<Ev("Encrypt", NoPkt, 0)>>}
        \cup UNION {
            LET begun == log \o <<Ev("Encrypt", enc, 1), E("noticeBegin")>>
                exchanged ==
                    IF serverProto = "udp"
                    THEN exchangeWithUDPServer(enc, begun)
                    ELSE exchangeWithTCPServer(enc, begun)
            IN  UNION {
                    IF x.err
                    THEN {x.log \o <<E("noticeFailure")>>}
                    ELSE AfterExchange(clientProto, x.pkt, x.log)
                    : x \in exchanged}
            : enc \in EncryptedQueries}

\* ExchangeDoH without the status test of main.go:457: the body of any reply
\* is read and served
ExchangeDoHAnyStatus(clientProto, log) ==
    {log \o <<Ev("DoHPost", NoPkt, 0)>>}
        \cup {log \o <<Ev("DoHPost", NoPkt, 200), Ev("ReadAll", NoPkt, 0)>>}
        \cup UNION {
            AfterExchange(clientProto, r,
                          log \o <<Ev("DoHPost", NoPkt, status), Ev("ReadAll", r, 1)>>)
            : r \in Responses, status \in {199, 200, 299, 300}}

\* main.go:438-463: the DoH exchange; n of DoHPost is the status of the
\* reply, 0 when client.Do failed
ExchangeDoH(clientProto, log) ==
    {log \o <<Ev("DoHPost", NoPkt, status)>> : status \in {0, 199, 300}}
        \cup {log \o <<Ev("DoHPost", NoPkt, 200), Ev("ReadAll", NoPkt, 0)>>}
        \cup UNION {
            AfterExchange(clientProto, r,
                          log \o <<Ev("DoHPost", NoPkt, status), Ev("ReadAll", r, 1)>>)
            : r \in Responses, status \in {200, 299}}

\* main.go:422-472: the exchange with the upstream, when no reply is at hand
Exchange(serverInfo, clientProto, serverProto, log) ==
    IF serverInfo = StampProtoTypeDNSCrypt
    THEN ExchangeDNSCrypt(clientProto, serverProto, log)
    ELSE IF serverInfo = StampProtoTypeDoH
         THEN ExchangeDoH(clientProto, log)
         ELSE {log \o <<E("Fatal")>>}

\* main.go:422-498
AfterQueryPlugins(serverInfo, clientProto, serverProto, response, log) ==
    IF response.len = 0
    THEN Exchange(serverInfo, clientProto, serverProto, log)
    ELSE SizePolicyAndEmit(clientProto, response, log)

\* processIncomingQuery without the return of main.go:418-420
processIncomingQueryNoDrop(serverInfo, clientProto, serverProto, query, action, synthResponse) ==
    IF query.len < MinDNSPacketSize \/ serverInfo = NoServer
    THEN {<<>>}
    ELSE LET applied == <<E("ApplyQueryPlugins")>>
         IN  IF action # PluginsActionForward /\ synthResponse # NoPkt
             THEN {applied \o <<Ev("PackBuffer", NoPkt, 0)>>}
                  \cup AfterQueryPlugins(serverInfo, clientProto, serverProto, synthResponse,
                                         applied \o <<Ev("PackBuffer", synthResponse, 1)>>)
             ELSE AfterQueryPlugins(serverInfo, clientProto, serverProto, NoPkt, applied)

\* main.go:403-499; serverInfo is the Proto of the selected server or NoServer,
\* action and synthResponse are the state the query plugins leave
processIncomingQuery(serverInfo, clientProto, serverProto, query, action, synthResponse) ==
    IF query.len < MinDNSPacketSize \/ serverInfo = NoServer
    THEN {<<>>}
    ELSE LET applied == <<E("ApplyQueryPlugins")>>
         IN  IF action # PluginsActionForward
             THEN IF synthResponse # NoPkt
                  THEN {applied \o <<Ev("PackBuffer", NoPkt, 0)>>}
                       \cup LET packed == applied \o <<Ev("PackBuffer", synthResponse, 1)>>
                            IN  IF action = PluginsActionDrop
                                THEN {packed}
                                ELSE AfterQueryPlugins(serverInfo, clientProto, serverProto,
                                                       synthResponse, packed)
                  ELSE IF action = PluginsActionDrop
                       THEN {applied}
                       ELSE AfterQueryPlugins(serverInfo, clientProto, serverProto,
                                              NoPkt, applied)
             ELSE AfterQueryPlugins(serverInfo, clientProto, serverProto, NoPkt, applied)


\* ------------------------------------------------------------------------
\* State
\* ------------------------------------------------------------------------

Tasks == 1..NTasks

VARIABLES
    service,        \* whether a service manager runs the program (main.go:67)
    appPc,          \* where App.Start / App.AppMain stands
    startReturned,  \* App.Start has returned
    stopped,        \* App.Stop has been invoked and has returned
    quit,           \* app.quit: "nil", "open" or "signalled"
    wg,             \* app.wg
    aborted,        \* the process has exited through dlog.Fatal
    liveServers,    \* proxy.serversInfo.liveServers()
    everLive,       \* some refresh has reported at least one live server
    notified,       \* SystemDNotify has been called
    refreshes,      \* refreshes run: "none", "startup", "loop"
    refresherPc,    \* the refresh loop of main.go:249-258
    delay,          \* the delay the refresh loop sleeps
    prefetcherPc,   \* the loop of main.go:262-278
    udpPc,          \* udpListener: "off", "listening", "closed"
    tcpPc,          \* tcpListener: "off", "listening"
    lastAccept,     \* how the last Accept ended: "none", "ok", "err"
    clientsCount,   \* proxy.clientsCount
    written,        \* the values clientsCount has held
    pc,             \* where each client task stands
    proto,          \* "udp" or "tcp" for each client task that has yet to serve its packet
    count,          \* the local count of clientsCountInc / clientsCountDec
    visible,        \* the values a plain read of clientsCount by the task may return
    incResult,      \* what clientsCountInc returned: "none", "true", "false"
    ran,            \* the task has called processIncomingQuery
    effects,        \* what the task did: "client", "upstream", "notice", "dec"
    last            \* the latest run of the pipeline observed on its own

vars ==
    <<service, appPc, startReturned, stopped, quit, wg, aborted, liveServers, everLive,
      notified, refreshes, refresherPc, delay, prefetcherPc, udpPc, tcpPc, lastAccept,
      clientsCount, written, pc, proto, count, visible, incResult, ran, effects, last>>

appVars == <<service, appPc, startReturned, stopped, quit, wg>>

catalogVars == <<liveServers, everLive, notified, refreshes>>

loopVars == <<refresherPc, delay, prefetcherPc>>

listenerVars == <<udpPc, tcpPc, lastAccept>>

taskVars == <<clientsCount, written, pc, proto, count, visible, incResult, ran, effects>>

NoRun ==
    [serverInfo |-> NoServer, clientProto |-> "none", serverProto |-> "none",
     query |-> NoPkt, action |-> "none", synthResponse |-> NoPkt, log |-> <<>>]

InitTasks ==
    /\ clientsCount = 0
    /\ written = {0}
    /\ pc = [t \in Tasks |-> "idle"]
    /\ proto = [t \in Tasks |-> "none"]
    /\ count = [t \in Tasks |-> 0]
    /\ visible = [t \in Tasks |-> {}]
    /\ incResult = [t \in Tasks |-> "none"]
    /\ ran = [t \in Tasks |-> FALSE]
    /\ effects = [t \in Tasks |-> {}]
    /\ last = NoRun

\* main.go:36-42: the App and its zero Proxy, before svc.Run or app.Start
Init ==
    /\ service \in BOOLEAN
    /\ appPc = "new"
    /\ startReturned = FALSE
    /\ stopped = FALSE
    /\ quit = "nil"
    /\ wg = 0
    /\ aborted = FALSE
    /\ liveServers = 0
    /\ everLive = FALSE
    /\ notified = FALSE
    /\ refreshes = "none"
    /\ refresherPc = "off"
    /\ delay = "none"
    /\ prefetcherPc = "off"
    /\ udpPc = "off"
    /\ tcpPc = "off"
    /\ lastAccept = "none"
    /\ InitTasks

\* ------------------------------------------------------------------------
\* The supervisor (main.go:76-107)
\* ------------------------------------------------------------------------

\* App.Start up to the call of AppMain: InitPluginsGlobals may be fatal
Start ==
    /\ ~aborted
    /\ appPc = "new"
    /\ \/ /\ aborted' = TRUE
          /\ UNCHANGED <<appPc, quit, wg, startReturned>>
       \/ /\ quit' = "open"
          /\ wg' = wg + 1
          /\ appPc' = "bind"
          /\ startReturned' = service
          /\ UNCHANGED aborted
    /\ UNCHANGED <<service, stopped, catalogVars, loopVars, listenerVars, taskVars, last>>

\* proxy.serversInfo.refresh: the number of live servers it leaves and reports
Refresh(n) ==
    /\ liveServers' = n
    /\ everLive' = (everLive \/ n > 0)

\* App.AppMain: StartProxy (main.go:184-259), then the wait for the quit signal
AppMain ==
    /\ ~aborted
    /\ appPc \in {"bind", "refresh", "loops", "blocked"}
    /\ CASE appPc = "bind" ->
              \* main.go:185-239: keys, servers, listeners; each failure is fatal
              /\ \/ /\ aborted' = TRUE
                    /\ UNCHANGED <<appPc, udpPc, tcpPc>>
                 \/ /\ udpPc' = "listening"
                    /\ tcpPc' = "listening"
                    /\ appPc' = "refresh"
                    /\ UNCHANGED aborted
              /\ UNCHANGED <<wg, catalogVars, loopVars, lastAccept>>
         [] appPc = "refresh" ->
              \* main.go:240-247
              /\ \E n \in 0..NumServers :
                    /\ Refresh(n)
                    /\ notified' = (notified \/ n > 0)
              /\ refreshes' = "startup"
              /\ appPc' = "loops"
              /\ UNCHANGED <<wg, aborted, loopVars, listenerVars>>
         [] appPc = "loops" ->
              \* main.go:248-258: both loops start, StartProxy returns
              /\ prefetcherPc' = "scan"
              /\ refresherPc' = "top"
              /\ appPc' = "blocked"
              /\ UNCHANGED <<wg, aborted, delay, catalogVars, listenerVars>>
         [] appPc = "blocked" ->
              \* main.go:99-101
              /\ quit = "signalled"
              /\ wg' = wg - 1
              /\ appPc' = "done"
              /\ UNCHANGED <<aborted, catalogVars, loopVars, listenerVars>>
    /\ UNCHANGED <<service, startReturned, stopped, quit, taskVars, last>>

\* App.Stop, which the service manager calls once Start has returned
Stop ==
    /\ ~aborted
    /\ startReturned
    /\ ~stopped
    /\ stopped' = TRUE
    /\ UNCHANGED <<service, appPc, startReturned, quit, wg, aborted, catalogVars, loopVars,
                   listenerVars, taskVars, last>>

\* ------------------------------------------------------------------------
\* Background loops (main.go:249-278)
\* ------------------------------------------------------------------------

\* the refresh loop with the two delays of main.go:251-254 exchanged
RefresherDelaysExchanged ==
    /\ ~aborted
    /\ refresherPc \in {"top", "sleep"}
    /\ IF refresherPc = "top"
       THEN /\ delay' = IF liveServers = 0
                        THEN "certRefreshDelay"
                        ELSE "certRefreshDelayAfterFailure"
            /\ refresherPc' = "sleep"
            /\ UNCHANGED catalogVars
       ELSE /\ \E n \in 0..NumServers : Refresh(n)
            /\ refreshes' = "loop"
            /\ refresherPc' = "top"
            /\ UNCHANGED <<delay, notified>>
    /\ UNCHANGED <<appVars, aborted, prefetcherPc, listenerVars, taskVars, last>>

\* one step of the refresh loop: pick the delay, or sleep it and refresh
Refresher ==
    /\ ~aborted
    /\ refresherPc \in {"top", "sleep"}
    /\ IF refresherPc = "top"
       THEN /\ delay' = IF liveServers = 0
                        THEN "certRefreshDelayAfterFailure"
                        ELSE "certRefreshDelay"
            /\ refresherPc' = "sleep"
            /\ UNCHANGED catalogVars
       ELSE /\ \E n \in 0..NumServers : Refresh(n)
            /\ refreshes' = "loop"
            /\ refresherPc' = "top"
            /\ UNCHANGED <<delay, notified>>
    /\ UNCHANGED <<appVars, aborted, prefetcherPc, listenerVars, taskVars, last>>

\* one step of the prefetcher: scan the URLs that are due, or sleep 60 seconds
Prefetcher ==
    /\ ~aborted
    /\ prefetcherPc \in {"scan", "sleep"}
    /\ prefetcherPc' = IF prefetcherPc = "scan" THEN "sleep" ELSE "scan"
    /\ UNCHANGED <<appVars, aborted, catalogVars, refresherPc, delay, listenerVars,
                   taskVars, last>>

\* ------------------------------------------------------------------------
\* Listeners (main.go:281-334)
\* ------------------------------------------------------------------------

\* the task a listener's go statement starts: the first slot not yet used
NextTask == CHOOSE t \in Tasks : pc[t] = "idle" /\ \A u \in Tasks : pc[u] = "idle" => t <= u

\* go func() of main.go:290 and main.go:318
Spawn(t, clientProto) ==
    /\ pc' = [pc EXCEPT ![t] = "inc_read"]
    /\ proto' = [proto EXCEPT ![t] = clientProto]
    /\ visible' = [visible EXCEPT ![t] = written]
    /\ UNCHANGED <<clientsCount, written, count, incResult, ran, effects>>

\* one round of udpListener: ReadFrom fails and the listener returns, closing
\* the socket, or a packet is read and its task is started
UdpListener ==
    /\ ~aborted
    /\ udpPc = "listening"
    /\ \/ /\ udpPc' = "closed"
          /\ UNCHANGED taskVars
       \/ /\ \E t \in Tasks : pc[t] = "idle"
          /\ Spawn(NextTask, "udp")
          /\ UNCHANGED udpPc
    /\ UNCHANGED <<appVars, aborted, catalogVars, loopVars, tcpPc, lastAccept, last>>

\* one round of tcpListener: Accept fails and the loop continues, or a
\* connection is accepted and its task is started
TcpListener ==
    /\ ~aborted
    /\ tcpPc = "listening"
    /\ \/ /\ lastAccept' = "err"
          /\ UNCHANGED taskVars
       \/ /\ \E t \in Tasks : pc[t] = "idle"
          /\ Spawn(NextTask, "tcp")
          /\ lastAccept' = "ok"
    /\ UNCHANGED <<appVars, aborted, catalogVars, loopVars, udpPc, tcpPc, last>>

\* ------------------------------------------------------------------------
\* Admission (main.go:383-401)
\* ------------------------------------------------------------------------

\* the plain read of proxy.clientsCount at main.go:385 and main.go:397: it
\* races with the compare-and-swaps of the other tasks, and returns a value
\* the counter has held since the task last synchronised with it
PlainRead(t) == visible[t]

\* a plain store in the place of the compare-and-swap: the counter is set
\* whatever it holds
StoreBlind(t, old, new, pcSwapped, pcNot) ==
    /\ clientsCount' = new
    /\ written' = written \cup {new}
    /\ pc' = [pc EXCEPT ![t] = pcSwapped]
    /\ visible' = [u \in 1..NTasks |->
                     IF u = t THEN (IF pcSwapped = "done" THEN {} ELSE {new})
                     ELSE IF pc[u] \in {"idle", "done", "fatal"}
                          THEN visible[u]
                          ELSE visible[u] \cup {new}]
    /\ count' = [count EXCEPT ![t] = 0]

\* atomic.CompareAndSwapUint32(&proxy.clientsCount, old, new) by task t: the
\* swap is done when the counter holds old; either way the task has then
\* seen the counter, and a swap shows its value to the running tasks
CompareAndSwap(t, old, new, pcSwapped, pcNot) ==
    LET swapped == clientsCount = old
        now == IF swapped THEN new ELSE clientsCount
        next == IF swapped THEN pcSwapped ELSE pcNot
    IN  /\ clientsCount' = now
        /\ written' = written \cup {now}
        /\ pc' = [pc EXCEPT ![t] = next]
        /\ visible' = [u \in Tasks |->
                         IF u = t THEN (IF next = "done" THEN {} ELSE {now})
                         ELSE IF pc[u] \in {"idle", "done", "fatal"} \/ ~swapped
                              THEN visible[u]
                              ELSE visible[u] \cup {now}]
        /\ count' = [count EXCEPT ![t] = 0]

\* the closure of main.go:290 or main.go:318 returns
Return(t) ==
    /\ pc' = [pc EXCEPT ![t] = "done"]
    /\ visible' = [visible EXCEPT ![t] = {}]

\* the refusal without the return of main.go:293 and main.go:322
RefusedFallsThrough(t) ==
    /\ incResult' = [incResult EXCEPT ![t] = "false"]
    /\ pc' = [pc EXCEPT ![t] = "admitted"]
    /\ UNCHANGED <<count, visible, effects>>

\* main.go:291-294, 320-323: clientsCountInc returned false
Refused(t) ==
    /\ incResult' = [incResult EXCEPT ![t] = "false"]
    /\ Return(t)
    /\ UNCHANGED <<count, effects>>

\* main.go:385-388: read the counter; at the cap clientsCountInc returns false
IncRead(t) ==
    /\ ~aborted
    /\ pc[t] = "inc_read"
    /\ \E c \in PlainRead(t) :
          IF c >= MaxClients
          THEN Refused(t)
          ELSE /\ count' = [count EXCEPT ![t] = c]
               /\ pc' = [pc EXCEPT ![t] = "inc_cas"]
               /\ UNCHANGED <<incResult, visible, effects>>
    /\ UNCHANGED <<appVars, aborted, catalogVars, loopVars, listenerVars, clientsCount,
                   written, proto, ran, last>>

\* main.go:389-391: on a swap clientsCountInc returns true
IncCAS(t) ==
    /\ ~aborted
    /\ pc[t] = "inc_cas"
    /\ CompareAndSwap(t, count[t], count[t] + 1, "admitted", "inc_read")
    /\ incResult' = [incResult EXCEPT ![t] = IF clientsCount = count[t] THEN "true" ELSE @]
    /\ UNCHANGED <<appVars, aborted, catalogVars, loopVars, listenerVars, proto, ran,
                   effects, last>>

\* clientsCountDec with the test of main.go:397 inverted: the loop breaks on
\* a counter that is not zero
DecReadInverted(t) ==
    /\ ~aborted
    /\ pc[t] = "dec_read"
    /\ \E c \in PlainRead(t) :
          IF c # 0
          THEN /\ Return(t)
               /\ UNCHANGED count
          ELSE /\ count' = [count EXCEPT ![t] = c]
               /\ pc' = [pc EXCEPT ![t] = "dec_cas"]
               /\ UNCHANGED visible
    /\ effects' = [effects EXCEPT ![t] = @ \cup {"dec"}]
    /\ UNCHANGED <<appVars, aborted, catalogVars, loopVars, listenerVars, clientsCount,
                   written, proto, incResult, ran, last>>

\* main.go:397, left operand: read the counter; on zero the loop breaks
DecRead(t) ==
    /\ ~aborted
    /\ pc[t] = "dec_read"
    /\ \E c \in PlainRead(t) :
          IF c = 0
          THEN /\ Return(t)
               /\ UNCHANGED count
          ELSE /\ count' = [count EXCEPT ![t] = c]
               /\ pc' = [pc EXCEPT ![t] = "dec_cas"]
               /\ UNCHANGED visible
    /\ effects' = [effects EXCEPT ![t] = @ \cup {"dec"}]
    /\ UNCHANGED <<appVars, aborted, catalogVars, loopVars, listenerVars, clientsCount,
                   written, proto, incResult, ran, last>>

\* main.go:397, right operand: on a swap the loop breaks
DecCAS(t) ==
    /\ ~aborted
    /\ pc[t] = "dec_cas"
    /\ CompareAndSwap(t, count[t], count[t] - 1, "done", "dec_read")
    /\ UNCHANGED <<appVars, aborted, catalogVars, loopVars, listenerVars, proto,
                   incResult, ran, effects, last>>

\* ------------------------------------------------------------------------
\* Client tasks (main.go:290-297, 318-332)
\* ------------------------------------------------------------------------

\* proxy.serversInfo.getOne: absent when no server is live, else a live server
getOne == IF liveServers = 0 THEN {NoServer} ELSE Protos

\* what a log shows of a task: bytes written to the client, an upstream
\* contacted, a notice given to the server
Summary(log) ==
    {"client" : i \in {j \in 1..Len(log) : log[j].op \in {"WriteTo", "Write"}}}
        \cup {"upstream" : i \in {j \in 1..Len(log) : log[j].op \in {"Dial", "DoHPost"}}}
        \cup {"notice" : i \in {j \in 1..Len(log) :
                                  log[j].op \in {"noticeBegin", "noticeFailure", "noticeSuccess"}}}

\* the call of processIncomingQuery by task t ends with outcome o; a fatal
\* one ends the process, else the deferred clientsCountDec runs next
Processed(t, o) ==
    /\ ran' = [ran EXCEPT ![t] = TRUE]
    /\ effects' = [effects EXCEPT ![t] = @ \cup o.effects]
    /\ aborted' = o.fatal
    /\ pc' = [pc EXCEPT ![t] = IF o.fatal THEN "fatal" ELSE "dec_read"]
    /\ proto' = [proto EXCEPT ![t] = "none"]

\* every call of processIncomingQuery: the server, the protocols, the query,
\* and the state the query plugins leave
Calls ==
    {[serverInfo |-> s, clientProto |-> c, serverProto |-> sp, query |-> q,
      action |-> a, synthResponse |-> sy] :
        s \in Protos \cup {NoServer}, c \in ClientProtos, sp \in ClientProtos,
        q \in Queries, a \in Actions, sy \in SynthStates}

\* every call with every log it may end with
Runs ==
    UNION {{[serverInfo |-> in.serverInfo, clientProto |-> in.clientProto,
             serverProto |-> in.serverProto, query |-> in.query, action |-> in.action,
             synthResponse |-> in.synthResponse, log |-> l] :
               l \in processIncomingQuery(in.serverInfo, in.clientProto, in.serverProto,
                                          in.query, in.action, in.synthResponse)} :
             in \in Calls}

\* what a task keeps of each run
Outcomes ==
    {[serverInfo |-> r.serverInfo, clientProto |-> r.clientProto,
      serverProto |-> r.serverProto, short |-> r.query.len < MinDNSPacketSize,
      effects |-> Summary(r.log), fatal |-> Has(r.log, "Fatal")] : r \in Runs}

\* main.go:296: the packet of a UDP task goes through the pipeline, with the
\* server getOne selected; proxy.mainProto is "udp" or "tcp"
UdpQuery(t) ==
    \E o \in Outcomes :
        /\ o.clientProto = "udp"
        /\ o.serverInfo \in getOne
        /\ Processed(t, o)

\* the TCP task with clientsCountDec called after processIncomingQuery in
\* the place of the defer of main.go:324: the return of main.go:328 skips it
TcpQueryNoDefer(t) ==
    \/ /\ pc' = [pc EXCEPT ![t] = "done"]
       /\ proto' = [proto EXCEPT ![t] = "none"]
       /\ UNCHANGED <<ran, effects, aborted>>
    \/ \E o \in Outcomes :
          /\ o.clientProto = "tcp"
          /\ o.serverProto = "tcp"
          /\ ~o.short
          /\ o.serverInfo \in getOne
          /\ Processed(t, o)

\* main.go:325-331: ReadPrefixed fails or the query is short, and the task
\* returns; else the query goes through the pipeline, the upstream over TCP
TcpQuery(t) ==
    \/ /\ pc' = [pc EXCEPT ![t] = "dec_read"]
       /\ proto' = [proto EXCEPT ![t] = "none"]
       /\ UNCHANGED <<ran, effects, aborted>>
    \/ \E o \in Outcomes :
          /\ o.clientProto = "tcp"
          /\ o.serverProto = "tcp"
          /\ ~o.short
          /\ o.serverInfo \in getOne
          /\ Processed(t, o)

\* the body of an admitted task
ClientQuery(t) ==
    /\ ~aborted
    /\ pc[t] = "admitted"
    /\ IF proto[t] = "udp" THEN UdpQuery(t) ELSE TcpQuery(t)
    /\ UNCHANGED <<appVars, catalogVars, loopVars, listenerVars, clientsCount, written,
                   count, visible, incResult, last>>

\* ------------------------------------------------------------------------
\* Specifications
\* ------------------------------------------------------------------------

Next ==
    \/ Start
    \/ AppMain
    \/ Stop
    \/ Refresher
    \/ Prefetcher
    \/ UdpListener
    \/ TcpListener
    \/ \E t \in Tasks : IncRead(t)
    \/ \E t \in Tasks : IncCAS(t)
    \/ \E t \in Tasks : ClientQuery(t)
    \/ \E t \in Tasks : DecRead(t)
    \/ \E t \in Tasks : DecCAS(t)

\* the program from its construction on
Spec == Init /\ [][Next]_vars

\* the state StartProxy leaves when it returns: listeners bound, the catalog
\* refreshed once, both loops started, AppMain waiting for the quit signal
Started ==
    /\ service \in BOOLEAN
    /\ appPc = "blocked"
    /\ startReturned = service
    /\ stopped = FALSE
    /\ quit = "open"
    /\ wg = 1
    /\ aborted = FALSE
    /\ liveServers \in 0..NumServers
    /\ everLive = (liveServers > 0)
    /\ notified = (liveServers > 0)
    /\ refreshes = "startup"
    /\ refresherPc = "top"
    /\ delay = "none"
    /\ prefetcherPc = "scan"
    /\ udpPc = "listening"
    /\ tcpPc = "listening"
    /\ lastAccept = "none"
    /\ InitTasks

\* the listeners and the client tasks
NextAdmission ==
    \/ UdpListener
    \/ TcpListener
    \/ \E t \in Tasks : IncRead(t)
    \/ \E t \in Tasks : IncCAS(t)
    \/ \E t \in Tasks : ClientQuery(t)
    \/ \E t \in Tasks : DecRead(t)
    \/ \E t \in Tasks : DecCAS(t)

\* a started proxy that a service manager runs
StartedAsService ==
    /\ Started
    /\ service = TRUE

\* the query service of a started proxy
SpecAdmission == StartedAsService /\ [][NextAdmission]_vars

\* every client task that can take a step of clientsCountInc or of
\* clientsCountDec eventually takes one
TaskFairness ==
    \A t \in Tasks :
        /\ WF_vars(IncRead(t))
        /\ WF_vars(IncCAS(t))
        /\ WF_vars(DecRead(t))
        /\ WF_vars(DecCAS(t))

\* a started proxy whose catalog holds no live server: getOne selects none
\* and every query returns at main.go:404
StartedNoServer ==
    /\ StartedAsService
    /\ liveServers = 0

\* the rounds of the listeners that start a task, and the client tasks
NextCounter ==
    \/ UdpListener /\ udpPc' = "listening"
    \/ TcpListener /\ lastAccept' = "ok"
    \/ \E t \in Tasks : IncRead(t)
    \/ \E t \in Tasks : IncCAS(t)
    \/ \E t \in Tasks : ClientQuery(t)
    \/ \E t \in Tasks : DecRead(t)
    \/ \E t \in Tasks : DecCAS(t)

\* the admission counter under client tasks that are scheduled fairly
SpecCounter == StartedNoServer /\ [][NextCounter]_vars /\ TaskFairness

\* the supervisor and the background loops
NextLife ==
    \/ Start
    \/ AppMain
    \/ Stop
    \/ Refresher
    \/ Prefetcher

\* every goroutine that can take a step eventually takes one
Fairness ==
    /\ WF_vars(Start)
    /\ WF_vars(AppMain)
    /\ WF_vars(Stop)
    /\ WF_vars(Refresher)
    /\ WF_vars(Prefetcher)

SpecLife == Init /\ [][NextLife]_vars /\ Fairness

\* one call of processIncomingQuery, observed with its whole log
RunQuery ==
    /\ last = NoRun
    /\ \E r \in Runs : last' = r
    /\ UNCHANGED <<appVars, aborted, catalogVars, loopVars, listenerVars, taskVars>>

SpecQuery == Started /\ [][RunQuery]_vars

\* ------------------------------------------------------------------------
\* Properties
\* ------------------------------------------------------------------------

\* the tasks between a successful clientsCountInc and the end of their
\* clientsCountDec
InFlight == {t \in Tasks : pc[t] \in {"admitted", "dec_read", "dec_cas"}}

\* C1: under every interleaving of the UDP and TCP tasks, clientsCount never
\* exceeds maxClients, and no more than maxClients tasks are between a
\* successful clientsCountInc and their clientsCountDec.
C1_CounterWithinCap ==
    /\ clientsCount <= MaxClients
    /\ Cardinality(InFlight) <= MaxClients

\* the cap is reached while another task, which read the counter below the
\* cap, is about to compare-and-swap
C1_RaceAtCap ==
    /\ clientsCount = MaxClients
    /\ Cardinality(InFlight) = MaxClients
    /\ \E t \in Tasks : pc[t] = "inc_cas" /\ count[t] < MaxClients

\* C2: a task that finds clientsCount at maxClients is dropped: clientsCountInc
\* returns false, the task never calls processIncomingQuery, writes nothing to
\* the client, contacts no upstream, gives no notice, does not run
\* clientsCountDec and leaves clientsCount as it is; and while the counter is
\* at the cap no task is admitted.
C2_DroppedAtCap ==
    /\ [](\A t \in Tasks :
            incResult[t] = "false" => pc[t] = "done" /\ ~ran[t] /\ effects[t] = {})
    /\ [][\A t \in Tasks :
            /\ (incResult[t] # "false" /\ incResult'[t] = "false")
                   => clientsCount' = clientsCount
            /\ (clientsCount = MaxClients /\ pc[t] \in {"inc_read", "inc_cas"})
                   => (incResult'[t] # "true" /\ pc'[t] \in {"inc_read", "inc_cas", "done"})]_vars

\* a UDP or TCP task has been refused while the cap was taken by tasks that
\* are still in flight
C2_RefusedAtCap ==
    \E t \in Tasks :
        /\ incResult[t] = "false"
        /\ clientsCount = MaxClients
        /\ Cardinality(InFlight) = MaxClients

\* the reply the pipeline holds when it reaches the size policy: the packed
\* synthesized response, or the upstream reply after the response plugins
Obtained(log) ==
    {log[i].pkt : i \in {j \in 1..Len(log) :
                           /\ log[j].op \in {"PackBuffer", "ApplyResponsePlugins"}
                           /\ log[j].n = 1}}

\* C3: every packet written to a UDP client is at most MaxDNSUDPPacketSize
\* long; when the reply at hand was longer, the packet written is the shell
\* TruncatedResponse made (TC set, no answer records), not the reply.
C3_UdpReplyFits ==
    last.clientProto = "udp" =>
        \A i \in 1..Len(last.log) :
            last.log[i].op = "WriteTo" =>
                /\ WireLen(last.log[i].pkt) <= MaxDNSUDPPacketSize
                /\ \A r \in Obtained(last.log) :
                      r.len > MaxDNSUDPPacketSize =>
                          /\ last.log[i].pkt.tc
                          /\ last.log[i].pkt.an = 0
                          /\ last.log[i].pkt # r
                          /\ \E j \in 1..(i - 1) :
                                /\ last.log[j].op = "TruncatedResponse"
                                /\ last.log[j].pkt = last.log[i].pkt

\* an upstream reply longer than MaxDNSUDPPacketSize was cut to a shell and
\* the shell written to the UDP client
C3_TruncatedWritten ==
    /\ last.clientProto = "udp"
    /\ \E r \in Obtained(last.log) : r.len > MaxDNSUDPPacketSize
    /\ Has(last.log, "ApplyResponsePlugins")
    /\ \E i \in 1..Len(last.log) : last.log[i].op = "WriteTo" /\ last.log[i].pkt.tc

\* a step of the upstream exchange failed: Encrypt, the dial, the read, the
\* HTTP exchange or its status, the read of the body, or Decrypt
UpstreamFailed(log) ==
    \E i \in 1..Len(log) :
        \/ log[i].op \in {"Encrypt", "Dial", "upstreamRead", "ReadAll", "Decrypt"} /\ log[i].n = 0
        \/ log[i].op = "DoHPost" /\ log[i].n \notin 200..299

ClientWritten(log) == Has(log, "WriteTo") \/ Has(log, "Write")

\* C4: when Encrypt, the upstream exchange (UDP, TCP or DoH) or Decrypt
\* fails, nothing is written to the client socket.
C4_SilentOnUpstreamFailure == UpstreamFailed(last.log) => ~ClientWritten(last.log)

\* an exchange that began with a server failed at Decrypt, and one over DoH
\* failed on its status
C4_ExchangeFailed ==
    /\ UpstreamFailed(last.log)
    /\ \/ Has(last.log, "Decrypt")
       \/ Has(last.log, "DoHPost")

\* C5: every failure of Encrypt, of the upstream exchange (DNSCrypt over UDP
\* or TCP, or DoH) or of Decrypt ends with noticeFailure on the server.
C5_FailureNoticed == UpstreamFailed(last.log) => Has(last.log, "noticeFailure")

\* C6: when the query plugins end with the Synth action, the upstream
\* exchange is skipped: no Encrypt, no noticeBegin, no exchange with a
\* DNSCrypt server, no DoH POST, and the response plugins are not applied.
C6_SynthSkipsUpstream ==
    last.action = PluginsActionSynth =>
        Ops(last.log) \cap {"Encrypt", "noticeBegin", "Dial", "upstreamWrite", "upstreamRead",
                            "DoHPost", "ApplyResponsePlugins", "Fatal"} = {}

\* C7: when the query plugins end with the Drop action, nothing is written
\* to the client, no upstream exchange starts, the estimator is not updated
\* and no notice is given, with or without a synthesized response.
C7_DropIsSilent ==
    last.action = PluginsActionDrop =>
        Ops(last.log) \subseteq {"ApplyQueryPlugins", "PackBuffer"}

\* a query of valid size, for a live server, was dropped by the plugins with a
\* synthesized response at hand
C7_DroppedWithSynth ==
    /\ last.action = PluginsActionDrop
    /\ last.synthResponse # NoPkt
    /\ last.serverInfo # NoServer
    /\ Ops(last.log) = {"ApplyQueryPlugins", "PackBuffer"}
    /\ \E i \in 1..Len(last.log) : last.log[i].op = "PackBuffer" /\ last.log[i].n = 1

\* C8: once Stop has been invoked the quit channel is signalled, AppMain
\* unblocks and calls wg.Done, and the refresh loop and the prefetcher
\* observe the signal and terminate (unless a fatal initialisation has ended
\* the process).
C8_ShutdownObserved ==
    stopped ~> \/ aborted
               \/ /\ quit = "signalled"
                  /\ appPc = "done"
                  /\ wg = 0
                  /\ refresherPc = "off"
                  /\ prefetcherPc = "off"

\* C9: once StartProxy has returned, no step of processIncomingQuery, of the
\* listeners or of the background loops ends the process, whatever the
\* protocol of the selected server.
C9_NoAbortAfterStart == aborted => appPc \notin {"blocked", "done"}

\* C10: once some refresh, at start-up or in the refresh loop, has reported a
\* live server, SystemDNotify is eventually called; it is not called before.
C10_ReadinessNotified ==
    /\ everLive ~> notified
    /\ [](notified => everLive)

\* the two bytes that hold n, most significant first
BigEndian16(n) == <<n \div 256, n % 256>>

\* C11: every response written to a TCP client is the reply at hand behind
\* the two bytes of its big-endian length; when prefixing fails nothing is
\* written and noticeFailure is called.
C11_TcpReplyPrefixed ==
    last.clientProto = "tcp" =>
        /\ \A i \in 1..Len(last.log) :
              last.log[i].op = "Write" =>
                  /\ last.log[i].pkt.prefix = BigEndian16(last.log[i].pkt.len)
                  /\ [last.log[i].pkt EXCEPT !.prefix = <<>>] \in Obtained(last.log)
        /\ (\E i \in 1..Len(last.log) :
               last.log[i].op = "PrefixWithSize" /\ last.log[i].n = 0)
              => (~ClientWritten(last.log) /\ Has(last.log, "noticeFailure"))

\* a reply longer than 255 bytes, so that both bytes of the prefix count, was
\* written to a TCP client
C11_LongReplyWritten ==
    /\ last.clientProto = "tcp"
    /\ \E i \in 1..Len(last.log) :
          /\ last.log[i].op = "Write"
          /\ last.log[i].pkt.len > 255
          /\ last.log[i].pkt.prefix = BigEndian16(last.log[i].pkt.len)

\* the step of spec section 4.2 an event belongs to; 0 for an event (a
\* failure notice, Fatal) that belongs to none
StepOf(op) ==
    CASE op \in {"ApplyQueryPlugins", "PackBuffer"} -> 2
      [] op \in {"Encrypt", "noticeBegin", "Dial", "upstreamWrite", "upstreamRead",
                 "upstreamClose", "Decrypt", "DoHPost", "ReadAll"} -> 3
      [] op = "ApplyResponsePlugins" -> 4
      [] op \in {"TruncatedResponse", "PrefixWithSize"} -> 5
      [] op \in {"adjust", "blindAdjust"} -> 6
      [] op \in {"WriteTo", "Write"} -> 7
      [] op = "noticeSuccess" -> 8
      [] OTHER -> 0

\* C12: within one query the steps occur in the order of spec section 4.2;
\* in particular the estimator is updated (blindAdjust or adjust) before the
\* response is written to the client socket.
C12_StepsInOrder ==
    \A i, j \in 1..Len(last.log) :
        (i < j /\ StepOf(last.log[i].op) # 0 /\ StepOf(last.log[j].op) # 0)
            => StepOf(last.log[i].op) <= StepOf(last.log[j].op)

\* the positions of the estimator updates in a log
Adjustments(log) == {i \in 1..Len(log) : log[i].op \in {"adjust", "blindAdjust"}}

\* C13: every query that reaches the emit step updates the estimator exactly
\* once: by blindAdjust when the client is UDP and the emitted response
\* carries TC, else (UDP without TC, every TCP response) by adjust with
\* ResponseOverhead + len(response).
C13_EstimatorUpdatedOnce ==
    \A i \in 1..Len(last.log) :
        last.log[i].op \in {"WriteTo", "Write"} =>
            /\ Cardinality(Adjustments(last.log)) = 1
            /\ \A a \in Adjustments(last.log) :
                  IF last.clientProto = "udp" /\ HasTCFlag(last.log[i].pkt)
                  THEN last.log[a].op = "blindAdjust"
                  ELSE /\ last.log[a].op = "adjust"
                       /\ last.log[a].n = ResponseOverhead + last.log[i].pkt.len

\* the write of the response to the client socket succeeded
WriteSucceeded(log) ==
    \E i \in 1..Len(log) : log[i].op \in {"WriteTo", "Write"} /\ log[i].n = 1

\* C14: noticeSuccess is called if and only if the write of the response to
\* the client socket succeeded; a failed WriteTo or Write never leads to
\* noticeSuccess.
C14_SuccessOnlyAfterWrite == Has(last.log, "noticeSuccess") <=> WriteSucceeded(last.log)

\* C15: the catalog is refreshed once during StartProxy, after the listeners
\* are bound and before the refresh loop starts; from then on the loop
\* repeats forever: it waits certRefreshDelay when a server is live at the
\* start of the iteration and certRefreshDelayAfterFailure when none is, then
\* refreshes, and no result of a refresh stops it.
C15_RefreshSchedule ==
    /\ [](refreshes # "none" => (udpPc # "off" /\ tcpPc # "off"))
    /\ [](refresherPc # "off" => refreshes # "none")
    /\ [](appPc \in {"blocked", "done"} => (refreshes # "none" /\ refresherPc # "off"))
    /\ [][refreshes = "none" /\ refreshes' # "none" => refreshes' = "startup" /\ refresherPc' = "off"]_vars
    /\ [][(refresherPc = "top" /\ refresherPc' # "top")
              => /\ refresherPc' = "sleep"
                 /\ delay' = IF liveServers = 0
                             THEN "certRefreshDelayAfterFailure"
                             ELSE "certRefreshDelay"]_vars
    /\ [][(refresherPc = "sleep" /\ refresherPc' # "sleep")
              => (refresherPc' = "top" /\ refreshes' = "loop")]_vars
    /\ (refresherPc = "top") ~> (refresherPc = "sleep")
    /\ (refresherPc = "sleep") ~> (refresherPc = "top")

\* the loop has waited the delay after failure, with no server live, and its
\* refresh has then reported a live server
C15_LoopRefreshedAfterFailure ==
    /\ refreshes = "loop"
    /\ refresherPc = "top"
    /\ delay = "certRefreshDelayAfterFailure"
    /\ liveServers > 0

\* C16: a listener whose blocking call fails exits: after an error of
\* ReadFrom (udpListener) or of Accept (tcpListener) the loop has ended and
\* the listening socket is closed; no listener keeps looping after an error.
C16_ListenersExitOnError ==
    /\ udpPc \in {"off", "listening", "closed"}
    /\ lastAccept = "err" => tcpPc = "closed"

\* the replies that reach the size policy of main.go:473: the reply at hand,
\* unless the query was dropped at main.go:418
AtSizePolicy(run) ==
    IF run.action = PluginsActionDrop THEN {} ELSE Obtained(run.log)

\* C17: a reply at the size policy that is shorter than MinDNSPacketSize or
\* longer than MaxDNSPacketSize is never written to the client, noticeFailure
\* is called and the estimator is not updated; a reply within the limits,
\* the limits included, passes: it is written, unless its truncation fails.
C17_SizePolicy ==
    \A r \in AtSizePolicy(last) :
        IF r.len < MinDNSPacketSize \/ r.len > MaxDNSPacketSize
        THEN /\ ~ClientWritten(last.log)
             /\ Has(last.log, "noticeFailure")
             /\ Adjustments(last.log) = {}
        ELSE \/ ClientWritten(last.log) /\ ~Has(last.log, "noticeFailure")
             \/ \E i \in 1..Len(last.log) :
                   last.log[i].op \in {"TruncatedResponse", "PrefixWithSize"} /\ last.log[i].n = 0

\* an upstream reply one byte longer than MaxDNSPacketSize reached the size
\* policy and was refused
C17_LongReplyRefused ==
    /\ \E r \in AtSizePolicy(last) : r.len = MaxDNSPacketSize + 1
    /\ Has(last.log, "ApplyResponsePlugins")
    /\ Has(last.log, "noticeFailure")
    /\ ~ClientWritten(last.log)

C19_CounterCountsInFlight ==
    ~aborted =>
        /\ clientsCount = Cardinality(InFlight)
        /\ \A t \in Tasks :
              (pc[t] = "done" /\ incResult[t] = "true") => "dec" \in effects[t]
        /\ \A t \in InFlight : incResult[t] = "true"
        /\ (InFlight = {} => clientsCount = 0)

\* an admitted task has replied to its client and returned, another has
\* returned without calling processIncomingQuery, and no task is in flight
C19_AllReleased ==
    /\ InFlight = {}
    /\ clientsCount = 0
    /\ \E t, u \in Tasks :
          /\ pc[t] = "done" /\ incResult[t] = "true" /\ "client" \in effects[t]
          /\ pc[u] = "done" /\ incResult[u] = "true" /\ ~ran[u]

\* C20: every upstream connection dialled for a DNSCrypt exchange is closed
\* before the exchange returns, on every return path after the dial.
C20_UpstreamClosed ==
    \A i \in 1..Len(last.log) :
        (last.log[i].op = "Dial" /\ last.log[i].n = 1)
            => \E j \in (i + 1)..Len(last.log) : last.log[j].op = "upstreamClose"

====
